---- MODULE Spec2Model ----
(***************************************************************************)
(* Scenic-Rider: the segmentation-to-score engine of calculate_score.py    *)
(* and its caller request.py.                                              *)
(*                                                                         *)
(* Strings that the code inspects character by character (class names,     *)
(* keywords, debug labels) are sequences of one-character strings.         *)
(* Python floats are exact rationals [k, n, d] in lowest terms, plus the   *)
(* values nan and None; the thresholds and coefficients of the code are    *)
(* short decimals and the pixel counts are small integers, so a comparison *)
(* of a quotient with a threshold gives the same answer on rationals as on *)
(* IEEE doubles.  A label map (pred_seg) is the flattened array of its     *)
(* pixels' class-ids: the code reads it only through .size, == and         *)
(* np.unique, none of which looks at the shape.                            *)
(***************************************************************************)
EXTENDS Integers, Sequences, FiniteSets

VARIABLES
    id2label,       \* model.config.id2label: class-id -> class name
    BIKE_LANE_IDS,  \* module globals of calculate_score.py, lists of class-ids
    WATER_IDS,
    NATURE_IDS,
    ROAD_IDS,
    UGLY_IDS,
    image,          \* the photograph a request is about and the label map the model yields for it
    pc,             \* "start" before a call, "done" after it
    call,           \* the call made last: function and arguments
    ret,            \* its outcome: a returned value or a raised exception
    frame           \* the locals of calculate_score when it ended

vars == <<id2label, BIKE_LANE_IDS, WATER_IDS, NATURE_IDS, ROAD_IDS, UGLY_IDS,
          image, pc, call, ret, frame>>

(***************************************************************************)
(* Bounds of the model.                                                    *)
(***************************************************************************)
\* the largest label map, in pixels
MaxPixels == 20
\* the largest number of distinct class-ids in one label map
MaxRegions == 3
\* the largest class-id of the vocabularies the taxonomy builder is run on
MaxVocabId == 2

\* the class-ids a label map may hold
ClassIds == 0 .. 4

(***************************************************************************)
(* Python values.                                                          *)
(***************************************************************************)
RECURSIVE GCD(_, _)
GCD(a, b) == IF b = 0 THEN a ELSE GCD(b, a % b)

Abs(x) == IF x < 0 THEN -x ELSE x

\* the float n/d (d > 0), in lowest terms
Rat(n, d) ==
    LET g == GCD(Abs(n), d)
    IN  [k |-> "float", n |-> n \div g, d |-> d \div g]

NaN == [k |-> "nan", n |-> 0, d |-> 1]

NoneValue == [k |-> "None", n |-> 0, d |-> 1]

\* the marker of a division that raised
ZeroDivisionError == [k |-> "ZeroDivisionError", n |-> 0, d |-> 1]

IsFloat(x) == x.k = "float"

IsRaise(x) == x.k = "ZeroDivisionError"

\* x + y, x - y, x * y on floats: nan is contagious
Add(x, y) ==
    IF IsFloat(x) /\ IsFloat(y) THEN Rat(x.n * y.d + y.n * x.d, x.d * y.d) ELSE NaN

Sub(x, y) ==
    IF IsFloat(x) /\ IsFloat(y) THEN Rat(x.n * y.d - y.n * x.d, x.d * y.d) ELSE NaN

Mul(x, y) ==
    IF IsFloat(x) /\ IsFloat(y) THEN Rat(x.n * y.n, x.d * y.d) ELSE NaN

\* x > y and x < y: every comparison with nan is False
GtOrEqual(x, y) == IsFloat(x) /\ IsFloat(y) /\ x.n * y.d >= y.n * x.d

Gt(x, y) == IsFloat(x) /\ IsFloat(y) /\ x.n * y.d > y.n * x.d

Lt(x, y) == IsFloat(x) /\ IsFloat(y) /\ x.n * y.d < y.n * x.d

\* the builtins min(a, b) and max(a, b): the first argument is kept unless the
\* second compares smaller (greater)
PyMin(a, b) == IF Lt(b, a) THEN b ELSE a

PyMax(a, b) == IF Gt(b, a) THEN b ELSE a

\* px / total.  px is [v, np]: np says that px is a numpy scalar (a sum that
\* added at least one np.sum), not the int 0 that sum() starts from.  A numpy
\* scalar divided by zero is nan (with a warning); a Python number divided by
\* zero raises.  total = 0 only for the empty label map, where every px is 0.
TrueDiv(px, total) ==
    IF total # 0 THEN Rat(px.v.n, px.v.d * total)
    ELSE IF px.np THEN NaN
    ELSE ZeroDivisionError

(***************************************************************************)
(* Strings.                                                                *)
(***************************************************************************)
UpperCase == <<"A","B","C","D","E","F","G","H","I","J","K","L","M",
               "N","O","P","Q","R","S","T","U","V","W","X","Y","Z">>

LowerCase == <<"a","b","c","d","e","f","g","h","i","j","k","l","m",
               "n","o","p","q","r","s","t","u","v","w","x","y","z">>

\* the lower-case letter of every upper-case letter
UpperToLower ==
    [c \in {UpperCase[i] : i \in 1 .. 26} |->
        LowerCase[CHOOSE i \in 1 .. 26 : UpperCase[i] = c]]

\* str.lower(), one character
LowerChar(c) == IF c \in DOMAIN UpperToLower THEN UpperToLower[c] ELSE c

\* str.lower()
Lower(s) == [i \in 1 .. Len(s) |-> LowerChar(s[i])]

\* the operator `in` on two strings: k occurs in s as a contiguous substring
IsSubstring(k, s) ==
    \E i \in 0 .. (Len(s) - Len(k)) : SubSeq(s, i + 1, i + Len(k)) = k

Digits == <<"0","1","2","3","4","5","6","7","8","9">>

\* str(n) of a non-negative integer
RECURSIVE Str(_)
Str(n) == IF n < 10 THEN <<Digits[n + 1]>> ELSE Str(n \div 10) \o <<Digits[(n % 10) + 1]>>

(***************************************************************************)
(* The keyword lists of the five groups.                                   *)
(***************************************************************************)
BikeLaneKeys == << <<"b","i","k","e"," ","l","a","n","e">> >>

WaterKeys == << <<"w","a","t","e","r">> >>

NatureKeys == << <<"v","e","g","e","t","a","t","i","o","n">>,
                 <<"t","e","r","r","a","i","n">>,
                 <<"m","o","u","n","t","a","i","n">>,
                 <<"s","a","n","d">>,
                 <<"s","k","y">> >>

RoadKeys == << <<"r","o","a","d">>,
               <<"s","e","r","v","i","c","e"," ","l","a","n","e">>,
               <<"c","r","o","s","s","w","a","l","k">> >>

UglyKeys == << <<"b","u","i","l","d","i","n","g">>,
               <<"w","a","l","l">>,
               <<"f","e","n","c","e">>,
               <<"c","a","r">>,
               <<"t","r","u","c","k">>,
               <<"b","u","s">>,
               <<"b","a","r","r","i","e","r">> >>

(***************************************************************************)
(* Vocabularies.                                                           *)
(***************************************************************************)
NameBikeLane == <<"B","i","k","e"," ","L","a","n","e">>

NameWater == <<"W","a","t","e","r">>

NameSky == <<"S","k","y">>

NameRoad == <<"R","o","a","d">>

NameCar == <<"C","a","r">>

NameCarBarrier == <<"C","a","r"," ","B","a","r","r","i","e","r">>

NameRoadWall == <<"R","o","a","d"," ","W","a","l","l">>

NamePole == <<"P","o","l","e">>

\* a vocabulary in which every group has one class of its own
VistasLike ==
    [i \in 0 .. 4 |->
        CASE i = 0 -> NameBikeLane
          [] i = 1 -> NameWater
          [] i = 2 -> NameSky
          [] i = 3 -> NameRoad
          [] OTHER -> NameCar]

\* a vocabulary with a name that matches two keywords of one group, a name that
\* matches two groups, a name that matches none, no bike lane and no nature
\* class, and no entry for class-id 4
Overlapping ==
    [i \in 0 .. 3 |->
        CASE i = 0 -> NameWater
          [] i = 1 -> NameCarBarrier
          [] i = 2 -> NameRoadWall
          [] OTHER -> NamePole]

Vocabularies == {VistasLike, Overlapping}

\* the names and keyword lists the taxonomy builder is run on
NamePool == {NameWater, NameCarBarrier, NameRoadWall, NamePole, NameSky}

TaxVocabularies ==
    UNION {[D -> NamePool] : D \in SUBSET (0 .. MaxVocabId)}

KeywordLists ==
    {BikeLaneKeys, WaterKeys, NatureKeys, RoadKeys, UglyKeys,
     << >>,
     << <<"W","A","T","E","R">>, <<"S","k","Y">> >>,
     << <<"w","a","l","l">>, <<"p","o","l","e">>, <<"w","a","l","l">> >>}

(***************************************************************************)
(* get_id_by_name                                                          *)
(***************************************************************************)
\* the ids of a dict in iteration order (ascending)
RECURSIVE SortedSeq(_)
SortedSeq(S) ==
    IF S = {} THEN << >>
    ELSE LET m == CHOOSE x \in S : \A y \in S : x <= y
         IN  <<m>> \o SortedSeq(S \ {m})

\* key.lower() in label.lower()
KeyInLabelCaseSensitive(key, label) == IsSubstring(key, label)

KeyInLabel(key, label) == IsSubstring(Lower(key), Lower(label))

\* the inner loop: one append for every keyword found in the label
RECURSIVE ScanKeys(_, _, _)
ScanKeys(id, label, keys) ==
    IF keys = << >> THEN << >>
    ELSE (IF KeyInLabel(Head(keys), label) THEN <<id>> ELSE << >>)
         \o ScanKeys(id, label, Tail(keys))

\* the outer loop over id2label.items(): found_ids when the loops end
RECURSIVE ScanLabels(_, _, _)
ScanLabels(vocab, ids, keys) ==
    IF ids = << >> THEN << >>
    ELSE ScanKeys(Head(ids), vocab[Head(ids)], keys)
         \o ScanLabels(vocab, Tail(ids), keys)

\* list(set(found_ids))
ListKeepingDuplicates(found_ids) == found_ids

ListOfSet(found_ids) ==
    SortedSeq({found_ids[i] : i \in 1 .. Len(found_ids)})

get_id_by_name(vocab, keyword_list) ==
    ListOfSet(ScanLabels(vocab, SortedSeq(DOMAIN vocab), keyword_list))

(***************************************************************************)
(* Calls and outcomes.                                                     *)
(***************************************************************************)
NoCall == [fn |-> "none", debug |-> FALSE, keys |-> << >>, api |-> "none", http |-> "none"]

NoRet == [kind |-> "none", score |-> NoneValue, status |-> "", ids |-> << >>, exc |-> ""]

Returned(score, status) ==
    [kind |-> "return", score |-> score, status |-> status, ids |-> << >>, exc |-> ""]

ReturnedIds(ids) ==
    [kind |-> "return", score |-> NoneValue, status |-> "", ids |-> ids, exc |-> ""]

Raised(exc) ==
    [kind |-> "raise", score |-> NoneValue, status |-> "", ids |-> << >>, exc |-> exc]

NoPx == [bike_lane |-> 0, water |-> 0, nature |-> 0, road |-> 0, ugly |-> 0]

NoFrame ==
    [total |-> 0, px |-> NoPx,
     bike_lane_ratio |-> NoneValue, water_ratio |-> NoneValue, nature_ratio |-> NoneValue,
     ugly_px |-> NoneValue, raw |-> NoneValue,
     score |-> NoneValue, status |-> "Neutral",
     unique |-> << >>, counts |-> << >>, stdout |-> << >>]

\* a file that is no image
NoImage == [ok |-> FALSE, seg |-> << >>]

(***************************************************************************)
(* The taxonomy builder on its own.                                        *)
(***************************************************************************)
\* module load, lines 36-40
GroupsLoaded ==
    /\ BIKE_LANE_IDS = get_id_by_name(id2label, BikeLaneKeys)
    /\ WATER_IDS = get_id_by_name(id2label, WaterKeys)
    /\ NATURE_IDS = get_id_by_name(id2label, NatureKeys)
    /\ ROAD_IDS = get_id_by_name(id2label, RoadKeys)
    /\ UGLY_IDS = get_id_by_name(id2label, UglyKeys)

InitTaxonomy ==
    /\ id2label \in TaxVocabularies
    /\ GroupsLoaded
    /\ image = NoImage
    /\ pc = "start"
    /\ call = NoCall
    /\ ret = NoRet
    /\ frame = NoFrame

GetIdByName(keys) ==
    /\ call' = [NoCall EXCEPT !.fn = "get_id_by_name", !.keys = keys]
    /\ ret' = ReturnedIds(get_id_by_name(id2label, keys))
    /\ pc' = "done"
    /\ UNCHANGED <<id2label, BIKE_LANE_IDS, WATER_IDS, NATURE_IDS, ROAD_IDS, UGLY_IDS,
                   image, frame>>

NextTaxonomy == \E keys \in KeywordLists : GetIdByName(keys)

SpecTaxonomy == InitTaxonomy /\ [][NextTaxonomy]_vars

(***************************************************************************)
(* Label maps.                                                             *)
(***************************************************************************)
\* n pixels of class i
Fill(i, n) == [p \in 1 .. n |-> i]

\* the label maps of at most r regions with class-ids from lo on and at most
\* budget pixels; the regions are laid out in the order of their class-ids
RECURSIVE RegionMaps(_, _, _)
RegionMaps(r, lo, budget) ==
    IF r = 0 THEN {<< >>}
    ELSE {<< >>} \cup
         UNION {{Fill(i, n) \o m : m \in RegionMaps(r - 1, i + 1, budget - n)} :
                    i \in {j \in ClassIds : j >= lo}, n \in 1 .. budget}

LabelMaps == RegionMaps(MaxRegions, 0, MaxPixels)

\* the files a request may be about: one that is no image, and the images,
\* each with the label map the segmentation model yields for it (lines 56-67)
Images == {NoImage} \cup {[ok |-> TRUE, seg |-> m] : m \in LabelMaps}

(***************************************************************************)
(* calculate_score                                                         *)
(***************************************************************************)
\* np.sum(pred_seg == i)
CountEq(seg, i) == Cardinality({p \in DOMAIN seg : seg[p] = i})

\* sum(np.sum(pred_seg == i) for i in ids), as an integer
RECURSIVE SumCounts(_, _)
SumCounts(seg, ids) ==
    IF ids = << >> THEN 0 ELSE CountEq(seg, Head(ids)) + SumCounts(seg, Tail(ids))

\* the same sum as a Python value: the int 0 of sum() when ids is empty, a
\* numpy scalar otherwise
PxSum(seg, ids) == [v |-> Rat(SumCounts(seg, ids), 1), np |-> Len(ids) > 0]

\* line 99: ugly_px = ugly_px * 0.5
KeepUgly(ugly_px) == ugly_px

HalveUgly(ugly_px) == [ugly_px EXCEPT !.v = Mul(@, Rat(5, 10))]

\* lines 90-117: the context check.  raised: the division of line 112 raised.
Context(water_ratio, bike_lane_ratio, nature_ratio, road_px, ugly_px, total) ==
    LET neutral == [status |-> "Neutral", bonus |-> Rat(0, 1), penalty |-> Rat(0, 1),
                    ugly_px |-> ugly_px, raised |-> FALSE]
    IN  IF Gt(water_ratio, Rat(10, 100))
        THEN [neutral EXCEPT !.status = "Waterfront", !.bonus = Rat(3, 10),
                             !.ugly_px = HalveUgly(ugly_px)]
        ELSE IF Gt(bike_lane_ratio, Rat(5, 100))
        THEN [neutral EXCEPT !.status = "Dedicated Bike Lane", !.bonus = Rat(2, 10)]
        ELSE IF Gt(nature_ratio, Rat(40, 100))
        THEN [neutral EXCEPT !.status = "Green Tunnel", !.bonus = Rat(1, 10)]
        ELSE IF IsRaise(TrueDiv(road_px, total))
        THEN [neutral EXCEPT !.raised = TRUE]
        ELSE IF Gt(TrueDiv(road_px, total), Rat(40, 100))
        THEN [neutral EXCEPT !.status = "City St (No Bike Lane)", !.penalty = Rat(2, 10)]
        ELSE [neutral EXCEPT !.status = "Mixed / Urban"]

\* line 128
NoClamp(score) == score

Clamp(score) == PyMax(Rat(0, 1), PyMin(Rat(1, 1), score))

\* np.unique(pred_seg, return_counts=True)
NpUniqueInVocabulary(seg) ==
    LET unique == SortedSeq({seg[p] : p \in DOMAIN seg} \cap DOMAIN id2label)
    IN  [unique |-> unique,
         counts |-> [j \in 1 .. Len(unique) |-> CountEq(seg, unique[j])]]

NpUnique(seg) ==
    LET unique == SortedSeq({seg[p] : p \in DOMAIN seg})
    IN  [unique |-> unique,
         counts |-> [j \in 1 .. Len(unique) |-> CountEq(seg, unique[j])]]

\* lines 136-139: the label of a class-id, its string form when it has none
DebugLabelNone(class_id) ==
    IF class_id \in DOMAIN id2label THEN id2label[class_id] ELSE <<"N","o","n","e">>

DebugLabel(class_id) ==
    IF class_id \in DOMAIN id2label THEN id2label[class_id] ELSE Str(class_id)

\* lines 134-143: the lines printed for the classes from the j-th on
RECURSIVE Breakdown(_, _, _, _)
Breakdown(unique, counts, total, j) ==
    IF j > Len(unique) THEN << >>
    ELSE LET pct == TrueDiv([v |-> Rat(counts[j], 1), np |-> TRUE], total)
         IN  (IF Gt(pct, Rat(2, 100))
              THEN << [label |-> DebugLabel(unique[j]), pct |-> pct] >>
              ELSE << >>)
             \o Breakdown(unique, counts, total, j + 1)

\* lines 131-144: the debug block, from the locals before it to the locals after it
DebugBlockShadowing(f, seg) ==
    LET u == NpUnique(seg)
    IN  [f EXCEPT !.unique = u.unique, !.counts = u.counts,
                  !.stdout = Breakdown(u.unique, u.counts, f.total, 1),
                  !.score = IF u.unique = << >> THEN @
                            ELSE Rat(u.counts[Len(u.counts)], f.total)]

DebugBlock(f, seg) ==
    LET u == NpUnique(seg)
    IN  [f EXCEPT !.unique = u.unique, !.counts = u.counts,
                  !.stdout = Breakdown(u.unique, u.counts, f.total, 1)]

\* lines 69-146: from the label map to the outcome and the locals at the end
Calc(seg, debug) ==
    LET total == Len(seg)
        bike_lane_px == PxSum(seg, BIKE_LANE_IDS)
        water_px == PxSum(seg, WATER_IDS)
        nature_px == PxSum(seg, NATURE_IDS)
        road_px == PxSum(seg, ROAD_IDS)
        ugly_px == PxSum(seg, UGLY_IDS)
        bike_lane_ratio == TrueDiv(bike_lane_px, total)
        water_ratio == TrueDiv(water_px, total)
        nature_ratio == TrueDiv(nature_px, total)
        ctx == Context(water_ratio, bike_lane_ratio, nature_ratio, road_px, ugly_px, total)
        score1 == Add(Add(Add(Rat(5, 10), Mul(nature_ratio, Rat(5, 10))),
                          Mul(water_ratio, Rat(15, 10))),
                      Mul(bike_lane_ratio, Rat(20, 10)))
        ugly_ratio == TrueDiv(ctx.ugly_px, total)
        score2 == Sub(Add(Sub(score1, Mul(ugly_ratio, Rat(5, 10))), ctx.bonus), ctx.penalty)
        raised == \/ IsRaise(bike_lane_ratio)
                  \/ IsRaise(water_ratio)
                  \/ IsRaise(nature_ratio)
                  \/ ctx.raised
                  \/ IsRaise(ugly_ratio)
        f0 == [total |-> total,
               px |-> [bike_lane |-> bike_lane_px.v.n, water |-> water_px.v.n,
                       nature |-> nature_px.v.n, road |-> road_px.v.n,
                       ugly |-> ugly_px.v.n],
               bike_lane_ratio |-> bike_lane_ratio,
               water_ratio |-> water_ratio,
               nature_ratio |-> nature_ratio,
               ugly_px |-> ctx.ugly_px.v,
               raw |-> score2,
               score |-> Clamp(score2),
               status |-> ctx.status,
               unique |-> << >>, counts |-> << >>, stdout |-> << >>]
        f1 == IF debug THEN DebugBlock(f0, seg) ELSE f0
    IN  IF raised
        THEN [ret |-> Raised("ZeroDivisionError"), frame |-> [NoFrame EXCEPT !.total = total]]
        ELSE [ret |-> Returned(f1.score, f1.status), frame |-> f1]

\* lines 45-146
calculate_score(img, debug) ==
    IF ~img.ok
    THEN [ret |-> Returned(Rat(5, 10), "Error"), frame |-> NoFrame]
    ELSE Calc(img.seg, debug)

Init ==
    /\ id2label \in Vocabularies
    /\ GroupsLoaded
    /\ image \in Images
    /\ pc = "start"
    /\ call = NoCall
    /\ ret = NoRet
    /\ frame = NoFrame

CalculateScore(debug) ==
    /\ pc = "start"
    /\ LET out == calculate_score(image, debug)
       IN  /\ ret' = out.ret
           /\ frame' = out.frame
    /\ call' = [NoCall EXCEPT !.fn = "calculate_score", !.debug = debug]
    /\ pc' = "done"
    /\ UNCHANGED <<id2label, BIKE_LANE_IDS, WATER_IDS, NATURE_IDS, ROAD_IDS, UGLY_IDS, image>>

Next == \E debug \in BOOLEAN : CalculateScore(debug)

Spec == Init /\ [][Next]_vars

(***************************************************************************)
(* request.py                                                              *)
(***************************************************************************)
\* lines 11-39: the URL of the first image found, or None
get_image_at_coordinate(api) == IF api = "found" THEN "url" ELSE "None"

\* lines 41-68.  api: what the search answers ("exception": the request or its
\* decoding raised, "empty": no image in the box, "found"); http: whether the
\* download of the image succeeds
download_and_score(api, http, img) ==
    IF get_image_at_coordinate(api) = "None"
    THEN [ret |-> Returned(NoneValue, "No Data"), frame |-> NoFrame]
    ELSE IF http = "error"
    THEN [ret |-> Raised("ConnectionError"), frame |-> NoFrame]
    ELSE IF ~img.ok
    THEN [ret |-> Raised("UnidentifiedImageError"), frame |-> NoFrame]
    ELSE calculate_score(img, TRUE)

DownloadAndScore(api, http) ==
    /\ pc = "start"
    /\ LET out == download_and_score(api, http, image)
       IN  /\ ret' = out.ret
           /\ frame' = out.frame
    /\ call' = [NoCall EXCEPT !.fn = "download_and_score", !.debug = TRUE,
                              !.api = api, !.http = http]
    /\ pc' = "done"
    /\ UNCHANGED <<id2label, BIKE_LANE_IDS, WATER_IDS, NATURE_IDS, ROAD_IDS, UGLY_IDS, image>>

NextOrchestrator ==
    \E api \in {"exception", "empty", "found"}, http \in {"ok", "error"} :
        DownloadAndScore(api, http)

SpecOrchestrator == Init /\ [][NextOrchestrator]_vars

(***************************************************************************)
(* Properties.                                                             *)
(***************************************************************************)
SetOf(list) == {list[i] : i \in 1 .. Len(list)}

\* the number of pixels of the label map whose class-id is in S
Pixels(S) == Cardinality({p \in DOMAIN image.seg : image.seg[p] \in S})

Scored == pc = "done" /\ call.fn = "calculate_score" /\ image.ok

NonEmpty == Len(image.seg) > 0

Statuses == {"Waterfront", "Dedicated Bike Lane", "Green Tunnel",
             "City St (No Bike Lane)", "Mixed / Urban"}

\* C1: on a non-empty label map calculate_score returns a score in [0, 1],
\* whatever the taxonomy and also when the linear formula leaves that range.
C1_ScoreInUnitInterval ==
    (Scored /\ NonEmpty) =>
        /\ ret.kind = "return"
        /\ ret.score.k = "float"
        /\ 0 <= ret.score.n
        /\ ret.score.n <= ret.score.d

\* the linear formula exceeds 1 and the score returned is 1
C1_Witness ==
    /\ Scored /\ NonEmpty
    /\ frame.raw.n > frame.raw.d
    /\ ret.score = Rat(1, 1)

\* the first rule that matches, on the pixel counts themselves
FirstRule ==
    LET T == Len(image.seg)
    IN  IF 10 * Pixels(SetOf(WATER_IDS)) > T THEN "Waterfront"
        ELSE IF 20 * Pixels(SetOf(BIKE_LANE_IDS)) > T THEN "Dedicated Bike Lane"
        ELSE IF 5 * Pixels(SetOf(NATURE_IDS)) > 2 * T THEN "Green Tunnel"
        ELSE IF 5 * Pixels(SetOf(ROAD_IDS)) > 2 * T THEN "City St (No Bike Lane)"
        ELSE "Mixed / Urban"

\* C2: the status returned is one of the five statuses, never "Neutral", and
\* is the status of the first rule that matches in the order water > 0.10,
\* bike lane > 0.05, nature > 0.40, road > 0.40, else Mixed / Urban, every
\* comparison strict.
C2_FirstMatchingRule ==
    (Scored /\ NonEmpty) =>
        /\ ret.kind = "return"
        /\ ret.status \in Statuses
        /\ ret.status = FirstRule

\* a ratio equal to its threshold: water is exactly 0.10 and the bike lane
\* rule, not the water rule, decides
C2_Witness ==
    /\ Scored /\ NonEmpty
    /\ 10 * Pixels(SetOf(WATER_IDS)) = Len(image.seg)
    /\ ret.status = "Dedicated Bike Lane"

\* 20 * total * (the linear formula), with the bonus, the penalty and the ugly
\* discount of the status returned
Formula20 ==
    LET T == Len(image.seg)
        st == ret.status
        bonus == CASE st = "Waterfront" -> 6
                   [] st = "Dedicated Bike Lane" -> 4
                   [] st = "Green Tunnel" -> 2
                   [] OTHER -> 0
        penalty == IF st = "City St (No Bike Lane)" THEN 4 ELSE 0
        ugly == IF st = "Waterfront" THEN 5 ELSE 10
    IN  10 * T + 10 * Pixels(SetOf(NATURE_IDS)) + 30 * Pixels(SetOf(WATER_IDS))
        + 40 * Pixels(SetOf(BIKE_LANE_IDS)) - ugly * Pixels(SetOf(UGLY_IDS))
        + bonus * T - penalty * T

\* C3: the score returned is the linear formula 0.5 + 0.5 nature + 1.5 water
\* + 2.0 bike lane - 0.5 ugly * discount + bonus - penalty, clamped to [0, 1],
\* with the bonus, penalty and discount of the status returned; the road
\* ratio is no term of it.
C3_ScoreFormula ==
    (Scored /\ NonEmpty) =>
        LET T == Len(image.seg)
            clamped == IF Formula20 < 0 THEN 0
                       ELSE IF Formula20 > 20 * T THEN 20 * T
                       ELSE Formula20
        IN  /\ ret.kind = "return"
            /\ ret.score.k = "float"
            /\ ret.score.n * 20 * T = clamped * ret.score.d

\* a waterfront with ugly pixels whose score is not clamped
C3_Witness ==
    /\ Scored /\ NonEmpty
    /\ ret.status = "Waterfront"
    /\ Pixels(SetOf(UGLY_IDS)) > 0
    /\ Formula20 > 0
    /\ Formula20 < 20 * Len(image.seg)

\* C4: on the empty label map scoring fails; it returns no (score, status).
C4_EmptyMapFails ==
    (Scored /\ ~NonEmpty) => ret.kind = "raise"

OrchestratorDone == pc = "done" /\ call.fn = "download_and_score"

\* a request that failed at some step
RequestFailed ==
    \/ call.api # "found"
    \/ call.http = "error"
    \/ ~image.ok
    \/ ret.kind = "raise"

\* C5: when a request fails at any step, download_and_score returns the
\* neutral score 0.5 with the status "Error" and raises nothing.
C5_NeutralOnFailure ==
    (OrchestratorDone /\ RequestFailed) =>
        /\ ret.kind = "return"
        /\ ret.score = Rat(1, 2)
        /\ ret.status = "Error"

\* the class-ids of the label map that have no vocabulary entry
UnknownIds == {image.seg[p] : p \in DOMAIN image.seg} \ DOMAIN id2label

\* the pixels whose class-id has a vocabulary entry and is in the group
KnownPixels(group) == Pixels(SetOf(group) \cap DOMAIN id2label)

\* C6: a pixel whose class-id has no vocabulary entry is no error: the call
\* returns a well-formed (score, status), the pixel adds to no group's sum, it
\* counts in the total, and the breakdown reports its class under the string
\* form of the id.
C6_UnknownClassId ==
    (Scored /\ NonEmpty /\ call.debug) =>
        /\ ret.kind = "return"
        /\ ret.score.k = "float"
        /\ ret.status \in Statuses
        /\ frame.total = Len(image.seg)
        /\ frame.px.bike_lane = KnownPixels(BIKE_LANE_IDS)
        /\ frame.px.water = KnownPixels(WATER_IDS)
        /\ frame.px.nature = KnownPixels(NATURE_IDS)
        /\ frame.px.road = KnownPixels(ROAD_IDS)
        /\ frame.px.ugly = KnownPixels(UGLY_IDS)
        /\ \A u \in UnknownIds :
              /\ u \in SetOf(frame.unique)
              /\ 50 * Pixels({u}) > Len(image.seg) =>
                    [label |-> <<Digits[u + 1]>>,
                     pct |-> Rat(Pixels({u}), Len(image.seg))] \in SetOf(frame.stdout)

\* a label map with pixels of a class-id without vocabulary entry, printed
C6_Witness ==
    /\ Scored /\ NonEmpty /\ call.debug
    /\ UnknownIds # {}
    /\ Pixels(DOMAIN id2label) > 0
    /\ \E j \in 1 .. Len(frame.stdout) : frame.stdout[j].label = <<"4">>

\* C7: with debug=True calculate_score returns what it returns with
\* debug=False, and leaves the pixel counts and ratios as they are.
C7_DebugChangesNothing ==
    (Scored /\ call.debug) =>
        LET plain == calculate_score(image, FALSE)
        IN  /\ ret = plain.ret
            /\ [frame EXCEPT !.unique = << >>, !.counts = << >>, !.stdout = << >>]
                 = plain.frame

\* a debug call that printed two classes
C7_Witness ==
    /\ Scored /\ call.debug
    /\ Len(frame.stdout) >= 2

\* the keyword occurs in the name at the offset, letter case ignored
MatchesAt(key, name, off) ==
    \A j \in 1 .. Len(key) : LowerChar(name[off + j]) = LowerChar(key[j])

ContainsIgnoringCase(name, key) ==
    \E off \in 0 .. (Len(name) - Len(key)) : MatchesAt(key, name, off)

\* the keywords of the list that occur in the name
KeysFound(name, keys) ==
    {i \in 1 .. Len(keys) : ContainsIgnoringCase(name, keys[i])}

TaxonomyCalled == pc = "done" /\ call.fn = "get_id_by_name"

\* C8: get_id_by_name returns exactly the class-ids whose name contains one of
\* the keywords as a case-insensitive substring, each once, and the empty list
\* when no name does; the ids returned depend on the vocabulary and the
\* keywords only.
C8_TaxonomyBuilder ==
    TaxonomyCalled =>
        /\ ret.kind = "return"
        /\ SetOf(ret.ids) = {id \in DOMAIN id2label : KeysFound(id2label[id], call.keys) # {}}
        /\ Cardinality(SetOf(ret.ids)) = Len(ret.ids)

\* a name that holds two of the keywords, in another letter case
C8_Witness ==
    /\ TaxonomyCalled
    /\ \E id \in SetOf(ret.ids) :
          /\ Cardinality(KeysFound(id2label[id], call.keys)) >= 2
          /\ \A i \in 1 .. Len(call.keys) : ~IsSubstring(call.keys[i], id2label[id])

\* the ratio is px / total
IsRatio(ratio, px, total) == ratio.k = "float" /\ ratio.n * total = px * ratio.d

\* C9: on a non-empty label map the pixel sum of each of the five groups is
\* the number of pixels whose class-id is in the group, no pixel twice, 0 for
\* an empty group; the ratio is that number over the total and is in [0, 1].
C9_GroupRatios ==
    (Scored /\ NonEmpty) =>
        LET T == Len(image.seg)
        IN  /\ ret.kind = "return"
            /\ frame.total = T
            /\ frame.px.bike_lane = Pixels(SetOf(BIKE_LANE_IDS))
            /\ frame.px.water = Pixels(SetOf(WATER_IDS))
            /\ frame.px.nature = Pixels(SetOf(NATURE_IDS))
            /\ frame.px.road = Pixels(SetOf(ROAD_IDS))
            /\ frame.px.ugly = Pixels(SetOf(UGLY_IDS))
            /\ \A g \in DOMAIN frame.px : 0 <= frame.px[g] /\ frame.px[g] <= T
            /\ IsRatio(frame.bike_lane_ratio, frame.px.bike_lane, T)
            /\ IsRatio(frame.water_ratio, frame.px.water, T)
            /\ IsRatio(frame.nature_ratio, frame.px.nature, T)
            /\ BIKE_LANE_IDS = << >> => frame.px.bike_lane = 0
            /\ NATURE_IDS = << >> => frame.px.nature = 0

\* pixels of a class whose name holds two keywords of the ugly group, in a
\* taxonomy with an empty group
C9_Witness ==
    /\ Scored /\ NonEmpty
    /\ BIKE_LANE_IDS = << >>
    /\ \E id \in SetOf(UGLY_IDS) :
          /\ Cardinality(KeysFound(id2label[id], UglyKeys)) >= 2
          /\ Pixels({id}) > 0

RECURSIVE SumSeq(_)
SumSeq(q) == IF q = << >> THEN 0 ELSE Head(q) + SumSeq(Tail(q))

\* the per-class counts of the classes that have a vocabulary entry, summed
VocabularySum ==
    SumSeq([j \in 1 .. Len(frame.unique) |->
              IF frame.unique[j] \in DOMAIN id2label THEN frame.counts[j] ELSE 0])

DebugReturned == Scored /\ call.debug /\ ret.kind = "return"

\* C10 as stated: the per-class pixel counts, summed across the vocabulary,
\* equal total_pixel_count.
C10_SumAcrossVocabulary ==
    DebugReturned => VocabularySum = frame.total

\* C10 as amended: the per-class pixel counts, summed over the class-ids that
\* occur in the label map, equal total_pixel_count, no class-id occurring
\* twice; summed across the vocabulary they fall short of it by the pixels
\* whose class-id has no vocabulary entry.
C10_SumOverClassesPresent ==
    DebugReturned =>
        /\ frame.total = Len(image.seg)
        /\ Len(frame.counts) = Len(frame.unique)
        /\ SumSeq(frame.counts) = frame.total
        /\ \A i, j \in 1 .. Len(frame.unique) : i < j => frame.unique[i] < frame.unique[j]
        /\ SetOf(frame.unique) = {image.seg[p] : p \in DOMAIN image.seg}
        /\ VocabularySum = frame.total - Pixels(UnknownIds)

\* a label map of three classes, one of them without vocabulary entry
C10_Witness ==
    /\ DebugReturned
    /\ Len(frame.unique) = 3
    /\ UnknownIds # {}

====
